---- MODULE Spec2Model ----
(***************************************************************************)
(* Verification model of hdeavila1992/Ashby-plots.                         *)
(*                                                                         *)
(*   src/unit_cell_data/plot_data.py  orthonormal_rotation, the baseline   *)
(*                                    materials and the __main__ script    *)
(*   src/src/plot_utilities.py        plotting_presets, draw_plot,         *)
(*                                    draw_guideline, common_definitions   *)
(*                                                                         *)
(* Numbers are binary floating-point values of Prec significant bits with  *)
(* round-to-nearest-even, the arithmetic of Python/numpy float64 at a      *)
(* reduced width (float64 has 53 bits); the exponent range is unbounded.   *)
(* A data frame is a sequence of rows, a row is a record of its columns.   *)
(***************************************************************************)
EXTENDS Integers, Sequences, FiniteSets, TLC

(***************************************************************************)
(* Bounds of the model.                                                    *)
(***************************************************************************)
\* significant bits of a floating-point number (53 in float64)
Prec == 8
\* most rows of a frame handed to orthonormal_rotation or to the density statement
MaxRows == 2
\* largest volume (Stiff volume, Total volume) of a row of the density frames
MaxVol == 5
\* leading letters of a figure_type that may be written in upper case
MaxCase == 2
\* most rows of a frame handed to draw_plot
MaxPlotRows == 2
\* largest exponent of a guideline
MaxPower == 2

(***************************************************************************)
(* Floating-point arithmetic (IEEE 754 semantics: round to nearest, ties   *)
(* to even; x/0 is inf, 0/0 is nan; no exception is raised by numpy).      *)
(* A finite number is s * m * 2^e with m = 0 or 2^(Prec-1) <= m < 2^Prec.  *)
(***************************************************************************)
FZero == [k |-> "fin", s |-> 1, m |-> 0, e |-> 0]
FNaN == [k |-> "nan", s |-> 1, m |-> 0, e |-> 0]
FInf(sg) == [k |-> "inf", s |-> sg, m |-> 0, e |-> 0]

Abs(i) == IF i < 0 THEN -i ELSE i
Sgn(i) == IF i < 0 THEN -1 ELSE 1

RECURSIVE NormUp(_, _, _)
NormUp(N, D, e) ==
    IF N < D * 2^(Prec - 1) THEN NormUp(2 * N, D, e - 1) ELSE <<N, D, e>>

RECURSIVE NormDown(_, _, _)
NormDown(N, D, e) ==
    IF N >= D * 2^Prec THEN NormDown(N, 2 * D, e + 1) ELSE <<N, D, e>>

\* the float nearest to sg * (N / D) * 2^e, for N >= 0 and D > 0
RoundRatio(sg, N, D, e) ==
    IF N = 0 THEN FZero
    ELSE LET a == NormUp(N, D, e)
             b == NormDown(a[1], a[2], a[3])
             q == b[1] \div b[2]
             r == b[1] % b[2]
             up == (2 * r > b[2]) \/ (2 * r = b[2] /\ q % 2 = 1)
             m1 == IF up THEN q + 1 ELSE q
         IN  IF m1 = 2^Prec
             THEN [k |-> "fin", s |-> sg, m |-> 2^(Prec - 1), e |-> b[3] + 1]
             ELSE [k |-> "fin", s |-> sg, m |-> m1, e |-> b[3]]

\* a Python number written n/d in decimal (0.5, 0.124, 1300E-6): the nearest float
FLit(n, d) == RoundRatio(Sgn(n), Abs(n), d, 0)
FInt(i) == FLit(i, 1)

IsFinite(a) == a.k = "fin"
IsZero(a) == a.k = "fin" /\ a.m = 0

FNeg(a) == IF a.k = "nan" \/ IsZero(a) THEN a ELSE [a EXCEPT !.s = -a.s]

FMul(a, b) ==
    IF a.k = "nan" \/ b.k = "nan" THEN FNaN
    ELSE IF a.k = "inf" \/ b.k = "inf"
         THEN IF IsZero(a) \/ IsZero(b) THEN FNaN ELSE FInf(a.s * b.s)
         ELSE RoundRatio(a.s * b.s, a.m * b.m, 1, a.e + b.e)

FDiv(a, b) ==
    IF a.k = "nan" \/ b.k = "nan" THEN FNaN
    ELSE IF a.k = "inf"
         THEN IF b.k = "inf" THEN FNaN ELSE FInf(a.s * b.s)
         ELSE IF b.k = "inf" THEN FZero
              ELSE IF IsZero(b)
                   THEN IF IsZero(a) THEN FNaN ELSE FInf(a.s * b.s)
                   ELSE RoundRatio(a.s * b.s, a.m, b.m, a.e - b.e)

FAdd(a, b) ==
    IF a.k = "nan" \/ b.k = "nan" THEN FNaN
    ELSE IF a.k = "inf"
         THEN IF b.k = "inf" /\ b.s # a.s THEN FNaN ELSE a
         ELSE IF b.k = "inf" THEN b
              ELSE IF IsZero(a) THEN b
                   ELSE IF IsZero(b) THEN a
                        ELSE LET lo == IF a.e < b.e THEN a.e ELSE b.e
                                 sum == a.s * a.m * 2^(a.e - lo)
                                        + b.s * b.m * 2^(b.e - lo)
                             IN  RoundRatio(Sgn(sum), Abs(sum), 1, lo)

FSub(a, b) == FAdd(a, FNeg(b))

\* a < b on floats; every comparison with nan is false
FLess(a, b) ==
    IF a.k = "nan" \/ b.k = "nan" THEN FALSE
    ELSE IF a.k = "inf" THEN a.s = -1 /\ ~(b.k = "inf" /\ b.s = -1)
         ELSE IF b.k = "inf" THEN b.s = 1
              ELSE LET lo == IF a.e < b.e THEN a.e ELSE b.e
                   IN  a.s * a.m * 2^(a.e - lo) < b.s * b.m * 2^(b.e - lo)

FGreater(a, b) == FLess(b, a)
FLessEq(a, b) == a.k # "nan" /\ b.k # "nan" /\ ~FLess(b, a)

(***************************************************************************)
(* State.                                                                  *)
(***************************************************************************)
VARIABLES
    rot_pc,       \* orthonormal_rotation: "call" before the call, "return" after
    data_frame,   \* orthonormal_rotation: the frame passed in
    rot_result,   \* orthonormal_rotation: the frame returned
    den_pc,       \* density statement: "before" or "after" it ran
    den_frame,    \* density statement: data_to_plot around plot_data.py 196-197
    pu_pc,        \* plot_utilities: "idle", or "returned" / "raised" after a call
    pu_call,      \* plot_utilities: the function called and its arguments
    pu_error,     \* plot_utilities: the exception the call ended in, or "none"
    rcParams,     \* matplotlib's global settings (plt.rc, plt.rcParams)
    backend,      \* matplotlib's backend, switched by the %matplotlib magic
    ax_calls,     \* the plotting calls made on ax by the call, in order
    uc_pc,        \* plot_data.py __main__: the statement to run next
    uc_error,     \* __main__: the exception that ended the run, or "none"
    uc_failed_at, \* __main__: the statement that raised it, or "none"
    ipython,      \* environment: whether get_ipython is defined (IPython, Spyder)
    files,        \* environment: the CSV files of the working directory
    output_dir,   \* environment: whether the directory output_images exists
    material,     \* __main__: the infill material in question
    counter,      \* __main__: the counter of the reading loop
    OV_data_frame,
    DV_data_frame,
    merged_data,
    data_to_plot,
    plotting_data_frame,
    compliant_material,
    outlier_data,
    axes,         \* the 4x4 grid of plt.subplots and what was drawn on each cell
    written       \* the image files written by plt.savefig, in order

rotVars == <<rot_pc, data_frame, rot_result>>
denVars == <<den_pc, den_frame>>
puVars == <<pu_pc, pu_call, pu_error, rcParams, backend, ax_calls>>
ucVars == <<uc_pc, uc_error, uc_failed_at, ipython, files, output_dir, material, counter,
            OV_data_frame, DV_data_frame, merged_data, data_to_plot,
            plotting_data_frame, compliant_material, outlier_data, axes, written>>
vars == <<rot_pc, data_frame, rot_result, den_pc, den_frame,
          pu_pc, pu_call, pu_error, rcParams, backend, ax_calls,
          uc_pc, uc_error, uc_failed_at, ipython, files, output_dir, material, counter,
          OV_data_frame, DV_data_frame, merged_data, data_to_plot,
          plotting_data_frame, compliant_material, outlier_data, axes, written>>

\* the parts of the state a specification does not use stay at rest
RotationAtRest == rot_pc = "idle" /\ data_frame = <<>> /\ rot_result = <<>>
DensityAtRest == den_pc = "idle" /\ den_frame = <<>>
UtilitiesAtRest ==
    /\ pu_pc = "unused" /\ pu_call = <<>> /\ pu_error = "none"
    /\ rcParams = <<>> /\ backend = "default" /\ ax_calls = <<>>
UnitCellAtRest ==
    /\ uc_pc = "unused" /\ uc_error = "none" /\ uc_failed_at = "none"
    /\ ipython = FALSE /\ files = <<>> /\ output_dir = FALSE
    /\ material = "" /\ counter = 0
    /\ OV_data_frame = <<>> /\ DV_data_frame = <<>> /\ merged_data = <<>>
    /\ data_to_plot = <<>> /\ plotting_data_frame = <<>>
    /\ compliant_material = <<>> /\ outlier_data = <<>>
    /\ axes = <<>> /\ written = <<>>

\* frames of at most n rows drawn from the set rows
FramesOf(rows, n) == UNION {[1..k -> rows] : k \in 0..n}

(***************************************************************************)
(* create_baseline_materials (plot_data.py 78-124).                        *)
(***************************************************************************)
\* material_dict['G'] = material_dict['E']/(2*(1+material_dict['nu']))
ShearModulus(E, nu) == FDiv(E, FMul(FInt(2), FAdd(FInt(1), nu)))

stiff ==
    [E |-> FLit(2009, 1), rho |-> FLit(1300, 1000000), nu |-> FLit(3, 10),
     G |-> ShearModulus(FLit(2009, 1), FLit(3, 10))]

compliant_dense ==
    [E |-> FLit(107, 100), rho |-> FLit(970, 1000000), nu |-> FLit(49, 100),
     G |-> ShearModulus(FLit(107, 100), FLit(49, 100)), name |-> "dense elastomer"]

compliant_foam ==
    [E |-> FLit(124, 1000), rho |-> FLit(400, 1000000), nu |-> FLit(45, 100),
     G |-> ShearModulus(FLit(124, 1000), FLit(45, 100)), name |-> "foamed elastomer"]

null_material ==
    [E |-> FInt(0), rho |-> FInt(0), nu |-> FInt(0), G |-> FInt(0), name |-> "none"]

(***************************************************************************)
(* orthonormal_rotation (plot_data.py 50-75).                              *)
(***************************************************************************)
\* mutation: only 'E2' is renamed, the old E1 is lost under the new one
RenameSwapped_oneway(row) == [row EXCEPT !.E1 = row.E2]

\* DataFrame.rename(columns={'E1':'E2','E2':'E1'}): the two columns trade names
RenameSwapped(row) == [row EXCEPT !.E1 = row.E2, !.E2 = row.E1]

\* mutation: the ratio taken the other way round, E2/E1 of the renamed row
RescaleNu12_inverted(row) ==
    [row EXCEPT !.Nu12 = FDiv(FMul(row.Nu12, row.E2), row.E1)]

\* rotated['Nu12'] = rotated['Nu12']*rotated['E1']/rotated['E2'], row by row
RescaleNu12(row) == [row EXCEPT !.Nu12 = FDiv(FMul(row.Nu12, row.E1), row.E2)]

rotated_data_frame(df) ==
    [i \in 1..Len(df) |-> RescaleNu12(RenameSwapped(df[i]))]

\* mutation: the rotated copy is returned without the original in front of it
orthonormal_rotation_noconcat(df) == rotated_data_frame(df)

\* pd.concat([data_frame, rotated_data_frame], ignore_index=True, axis=0)
orthonormal_rotation(df) == df \o rotated_data_frame(df)

RotE == {FInt(0), FInt(3), FInt(7)}
RotNu == {FLit(-1, 2), FLit(3, 10)}
RotIDs == {151, 152}
RotRows == [ID : RotIDs, E1 : RotE, E2 : RotE, Nu12 : RotNu]

InitRotation ==
    /\ rot_pc = "call"
    /\ data_frame \in FramesOf(RotRows, MaxRows)
    /\ rot_result = <<>>
    /\ DensityAtRest
    /\ UtilitiesAtRest
    /\ UnitCellAtRest

Rotate ==
    /\ rot_pc = "call"
    /\ rot_result' = orthonormal_rotation(data_frame)
    /\ rot_pc' = "return"
    /\ UNCHANGED <<data_frame, denVars, puVars, ucVars>>

NextRotation == Rotate

SpecRotation == InitRotation /\ [][NextRotation]_vars

(***************************************************************************)
(* The density field (plot_data.py 195-197), on its own: the statement is  *)
(* applied to a frame whose volume columns range over 0..MaxVol.           *)
(***************************************************************************)
\* mutation: the compliant share weighted by the total volume
DensityOf_nosub(row) ==
    FDiv(FAdd(FMul(row.Stiff_volume, stiff.rho),
              FMul(row.Total_volume, compliant_dense.rho)),
         row.Total_volume)

\* (Stiff volume*stiff['rho'] + (Total volume-Stiff volume)*compliant_dense['rho'])
\*   / Total volume
DensityOf(row) ==
    FDiv(FAdd(FMul(row.Stiff_volume, stiff.rho),
              FMul(FSub(row.Total_volume, row.Stiff_volume), compliant_dense.rho)),
         row.Total_volume)

\* data_to_plot['Density'] = ...: the column is computed row by row
WithDensity(df) ==
    [i \in 1..Len(df) |->
        [c \in DOMAIN df[i] \cup {"Density"} |->
            IF c = "Density" THEN DensityOf(df[i]) ELSE df[i][c]]]

Volumes == {FInt(i) : i \in 0..MaxVol}
DenRows == [Stiff_volume : Volumes, Total_volume : Volumes]

InitDensity ==
    /\ den_pc = "before"
    /\ den_frame \in FramesOf(DenRows, MaxRows)
    /\ RotationAtRest
    /\ UtilitiesAtRest
    /\ UnitCellAtRest

CreateDensityField ==
    /\ den_pc = "before"
    /\ den_frame' = WithDensity(den_frame)
    /\ den_pc' = "after"
    /\ UNCHANGED <<rotVars, puVars, ucVars>>

NextDensity == CreateDensityField

SpecDensity == InitDensity /\ [][NextDensity]_vars

(***************************************************************************)
(* plot_utilities.py.  A string is the sequence of its characters.         *)
(***************************************************************************)
UpperCase ==
    <<"A", "B", "C", "D", "E", "F", "G", "H", "I", "J", "K", "L", "M",
      "N", "O", "P", "Q", "R", "S", "T", "U", "V", "W", "X", "Y", "Z">>
LowerCase ==
    <<"a", "b", "c", "d", "e", "f", "g", "h", "i", "j", "k", "l", "m",
      "n", "o", "p", "q", "r", "s", "t", "u", "v", "w", "x", "y", "z">>

LowerChar(c) ==
    IF \E i \in DOMAIN UpperCase : UpperCase[i] = c
    THEN LowerCase[CHOOSE i \in DOMAIN UpperCase : UpperCase[i] = c]
    ELSE c

UpperChar(c) ==
    IF \E i \in DOMAIN LowerCase : LowerCase[i] = c
    THEN UpperCase[CHOOSE i \in DOMAIN LowerCase : LowerCase[i] = c]
    ELSE c

\* str.lower()
lower(str) == [i \in 1..Len(str) |-> LowerChar(str[i])]

Str_publication == <<"p", "u", "b", "l", "i", "c", "a", "t", "i", "o", "n">>
Str_presentation == <<"p", "r", "e", "s", "e", "n", "t", "a", "t", "i", "o", "n">>
Str_poster == <<"p", "o", "s", "t", "e", "r">>
Str_publications == Str_publication \o <<"s">>

\* the word with the letters at the positions of S in upper case
WithUpper(word, S) ==
    [i \in 1..Len(word) |-> IF i \in S THEN UpperChar(word[i]) ELSE word[i]]

FigureTypes ==
    {WithUpper(w, S) :
        w \in {Str_publication, Str_presentation, Str_poster, Str_publications, <<>>},
        S \in SUBSET (1..MaxCase)}

\* the raise statement: an exception class or instance is raised as it is, any
\* other operand (a tuple, here) makes Python 3 raise TypeError
RaiseStatement(operand) ==
    IF operand.type = "exception" THEN operand.class ELSE "TypeError"

\* (ValueError, '...'): the parenthesised operand of raise is a tuple
ValueErrorTuple == [type |-> "tuple", class |-> "ValueError"]

\* matplotlib's settings before any preset is applied
rcDefaults ==
    [font_family |-> "sans-serif", font_serif |-> "DejaVu Serif",
     font_sans_serif |-> "DejaVu Sans", font_size |-> 10, text_usetex |-> FALSE,
     svg_fonttype |-> "path", lines_markersize |-> 6]

\* the outcome of plotting_presets(figure_type) on the settings rc
plotting_presets(rc, figure_type) ==
    IF lower(figure_type) = Str_publication
    THEN [error |-> "none",
          rc |-> [rc EXCEPT !.font_family = "serif",
                            !.font_serif = "Times New Roman",
                            !.font_size = 10,
                            !.text_usetex = TRUE,
                            !.svg_fonttype = "none",
                            !.lines_markersize = 10]]
    ELSE IF lower(figure_type) = Str_presentation
         THEN [error |-> "none",
               rc |-> [rc EXCEPT !.font_family = "sans-serif",
                                 !.font_sans_serif = "Arial",
                                 !.font_size = 18,
                                 !.text_usetex = FALSE,
                                 !.svg_fonttype = "none",
                                 !.lines_markersize = 10]]
         ELSE [error |-> RaiseStatement(ValueErrorTuple), rc |-> rc]

\* what IPython offers the process: a running shell, the package without a
\* shell (get_ipython() is None), or no package at all
IPythonStates == {"shell", "no shell", "not installed"}

\* 43-49: under SPY_PYTHONPATH the function imports get_ipython and runs the
\* %matplotlib qt magic on the shell
SpyderBranch(spyder, shell) ==
    IF ~spyder THEN "none"
    ELSE IF shell = "not installed" THEN "ModuleNotFoundError"
         ELSE IF shell = "no shell" THEN "AttributeError"
              ELSE "none"

PlottingPresets ==
    /\ pu_pc = "idle"
    /\ \E figure_type \in FigureTypes, spyder \in BOOLEAN, shell \in IPythonStates :
          LET magic == SpyderBranch(spyder, shell)
              out == plotting_presets(rcParams, figure_type)
          IN  /\ pu_call' = [fn |-> "plotting_presets", figure_type |-> figure_type,
                             spyder |-> spyder, shell |-> shell]
              /\ IF magic # "none"
                 THEN /\ UNCHANGED <<backend, rcParams>>
                      /\ pu_error' = magic
                      /\ pu_pc' = "raised"
                 ELSE /\ backend' = IF spyder THEN "qt" ELSE backend
                      /\ rcParams' = out.rc
                      /\ pu_error' = out.error
                      /\ pu_pc' = IF out.error = "none" THEN "returned" ELSE "raised"
    /\ UNCHANGED <<ax_calls, rotVars, denVars, ucVars>>

(***************************************************************************)
(* common_definitions and draw_plot (plot_utilities.py 285-326, 75-162).   *)
(***************************************************************************)
material_colors ==
    [c \in {"Foams", "Elastomers", "Natural materials", "Polymers",
            "Nontechnical ceramics", "Composites", "Technical ceramics", "Metals"} |->
        CASE c = "Foams" -> "blue"
          [] c = "Elastomers" -> "orange"
          [] c = "Natural materials" -> "green"
          [] c = "Polymers" -> "red"
          [] c = "Nontechnical ceramics" -> "purple"
          [] c = "Composites" -> "Brown"
          [] c = "Technical ceramics" -> "pink"
          [] c = "Metals" -> "grey"]

\* the categories of the model's frames in the order groupby('Category') yields
\* its groups (ascending); "Woods" is a category material_colors has no key for
SortedCategories == <<"Foams", "Metals", "Woods">>

\* the group keys of data.groupby('Category'), in order
GroupKeys(data) ==
    SelectSeq(SortedCategories,
              LAMBDA c : \E i \in 1..Len(data) : data[i].Category = c)

\* the rows of one group, in the frame's order
GroupRows(data, c) == SelectSeq(data, LAMBDA row : row.Category = c)

\* X of the 'ranges' branch: the low corners of all rows, then the high corners
RangesX(md) ==
    [i \in 1..(2 * Len(md)) |->
        IF i <= Len(md) THEN <<md[i].x_low, md[i].y_low>>
        ELSE <<md[i - Len(md)].x_high, md[i - Len(md)].y_high>>]

\* X of the 'values' branch
ValuesX(md) == [i \in 1..Len(md) |-> <<md[i].x, md[i].y>>]

\* mutation: the loop over the rows stops one row short
EllipseCalls_short(md, c, colors) ==
    [i \in 1..(Len(md) - 1) |->
        [fn |-> "draw_ellipses", category |-> c, color |-> colors[c],
         x |-> <<md[i].x_low, md[i].x_high>>, y |-> <<md[i].y_low, md[i].y_high>>,
         X |-> <<>>]]

\* for i in range(len(material_data)): draw_ellipses(x=[low, high], y=[low, high])
EllipseCalls(md, c, colors) ==
    [i \in 1..Len(md) |->
        [fn |-> "draw_ellipses", category |-> c, color |-> colors[c],
         x |-> <<md[i].x_low, md[i].x_high>>, y |-> <<md[i].y_low, md[i].y_high>>,
         X |-> <<>>]]

ScatterCall(md, c, colors) ==
    [fn |-> "scatter", category |-> c, color |-> colors[c],
     x |-> [i \in 1..Len(md) |-> md[i].x], y |-> [i \in 1..Len(md) |-> md[i].y],
     X |-> <<>>]

HullCall(X, c, colors) ==
    [fn |-> "draw_hull", category |-> c, color |-> colors[c],
     x |-> <<>>, y |-> <<>>, X |-> X]

\* one pass of the loop body for the group of category c: the calls it makes
\* and the exception it ends in ("none": the pass reaches its end)
PlotGroup(md, c, colors, data_type) ==
    IF data_type = "ranges"
    THEN IF c \in DOMAIN colors
         THEN [calls |-> EllipseCalls(md, c, colors) \o <<HullCall(RangesX(md), c, colors)>>,
               error |-> "none"]
         ELSE [calls |-> <<>>, error |-> "KeyError"]
    ELSE IF data_type = "values"
         THEN IF c \in DOMAIN colors
              THEN [calls |-> <<ScatterCall(md, c, colors), HullCall(ValuesX(md), c, colors)>>,
                    error |-> "none"]
              ELSE [calls |-> <<>>, error |-> "KeyError"]
         ELSE [calls |-> <<>>, error |-> RaiseStatement(ValueErrorTuple)]

\* for category, material_data in data.groupby('Category'): ... ; the loop ends
\* at the first exception
RECURSIVE PlotGroups(_, _, _, _, _)
PlotGroups(keys, data, colors, data_type, done) ==
    IF keys = <<>> THEN [calls |-> done, error |-> "none"]
    ELSE LET g == PlotGroup(GroupRows(data, Head(keys)), Head(keys), colors, data_type)
         IN  IF g.error # "none"
             THEN [calls |-> done \o g.calls, error |-> g.error]
             ELSE PlotGroups(Tail(keys), data, colors, data_type, done \o g.calls)

draw_plot(data, colors, data_type) ==
    PlotGroups(GroupKeys(data), data, colors, data_type, <<>>)

PlotRows ==
    [Category : {"Foams", "Metals", "Woods"},
     x_low : {1, 2}, x_high : {4}, y_low : {5}, y_high : {7, 8}, x : {3}, y : {6}]
DataTypes == {"ranges", "values", "range"}

DrawPlot ==
    /\ pu_pc = "idle"
    /\ \E data \in FramesOf(PlotRows, MaxPlotRows), data_type \in DataTypes :
          LET out == draw_plot(data, material_colors, data_type)
          IN  /\ pu_call' = [fn |-> "draw_plot", data |-> data, data_type |-> data_type]
              /\ ax_calls' = out.calls
              /\ pu_error' = out.error
              /\ pu_pc' = IF out.error = "none" THEN "returned" ELSE "raised"
    /\ UNCHANGED <<rcParams, backend, rotVars, denVars, ucVars>>

(***************************************************************************)
(* draw_guideline (plot_utilities.py 211-282).                             *)
(***************************************************************************)
\* x ** p for an integer p >= 0: the float nearest to the exact power
FPow(x, p) ==
    IF x.k = "nan" THEN (IF p = 0 THEN FInt(1) ELSE FNaN)
    ELSE IF x.k = "inf"
         THEN (IF p = 0 THEN FInt(1)
               ELSE FInf(IF x.s = -1 /\ p % 2 = 1 THEN -1 ELSE 1))
         ELSE IF p = 0 THEN FInt(1)
              ELSE RoundRatio(IF x.s = -1 /\ p % 2 = 1 THEN -1 ELSE 1,
                              x.m ^ p, 1, x.e * p)

\* mutation: the samples of endpoint=False, stop itself left out
linspace_noendpoint(start, stop, num) ==
    [i \in 1..num |-> FAdd(FMul(FInt(i - 1), FDiv(FSub(stop, start), FInt(num))), start)]

\* np.linspace(start, stop, num), num > 1: arange(0, num) * step + start with
\* step = (stop - start) / (num - 1), the last sample set to stop
linspace(start, stop, num) ==
    LET delta == FSub(stop, start)
        step == FDiv(delta, FInt(num - 1))
    IN  [i \in 1..num |->
            IF i = num THEN stop
            ELSE IF IsZero(step)
                 THEN FAdd(FMul(FDiv(FInt(i - 1), FInt(num - 1)), delta), start)
                 ELSE FAdd(FMul(FInt(i - 1), step), start)]

num_points == 5

\* mutation: the two forms of the line exchanged
GuidelineY_swapped(x, power, y_intercept, log_flag) ==
    IF log_flag THEN FAdd(FMul(FInt(power), x), y_intercept)
    ELSE FMul(y_intercept, FPow(x, power))

\* y_intercept*x_values[i]**power if log_flag else power*x_values[i] + y_intercept
GuidelineY(x, power, y_intercept, log_flag) ==
    IF log_flag THEN FMul(y_intercept, FPow(x, power))
    ELSE FAdd(FMul(FInt(power), x), y_intercept)

draw_guideline(guideline, log_flag) ==
    LET x_values == linspace(guideline.x_lim[1], guideline.x_lim[2], num_points)
        y_values == [i \in 1..num_points |->
                        GuidelineY(x_values[i], guideline.power,
                                   guideline.y_intercept, log_flag)]
    IN  <<[fn |-> "plot", x |-> x_values, y |-> y_values, fmt |-> "k--"],
          [fn |-> "RotationAwareAnnotation", text |-> guideline.string,
           xy |-> guideline.string_position,
           p |-> <<x_values[4], y_values[4]>>, pa |-> <<x_values[1], y_values[1]>>]>>

Guidelines ==
    [power : 0..MaxPower,
     x_lim : {<<FInt(1), FInt(10)>>, <<FInt(0), FInt(4)>>,
              <<FInt(2), FInt(2)>>, <<FLit(1, 10), FInt(100)>>},
     y_intercept : {FInt(1), FLit(1, 2), FInt(3)},
     string : {"E/rho"},
     string_position : {<<1, 1>>}]

DrawGuideline ==
    /\ pu_pc = "idle"
    /\ \E guideline \in Guidelines, log_flag \in BOOLEAN :
          /\ pu_call' = [fn |-> "draw_guideline", guideline |-> guideline,
                         log_flag |-> log_flag]
          /\ ax_calls' = draw_guideline(guideline, log_flag)
          /\ pu_error' = "none"
          /\ pu_pc' = "returned"
    /\ UNCHANGED <<rcParams, backend, rotVars, denVars, ucVars>>

\* the caller goes on to its next call; matplotlib's settings stay as they are
NextCall ==
    /\ pu_pc \in {"returned", "raised"}
    /\ pu_pc' = "idle"
    /\ pu_call' = <<>>
    /\ pu_error' = "none"
    /\ ax_calls' = <<>>
    /\ UNCHANGED <<rcParams, backend, rotVars, denVars, ucVars>>

InitUtilities ==
    /\ pu_pc = "idle"
    /\ pu_call = <<>>
    /\ pu_error = "none"
    /\ rcParams = rcDefaults
    /\ backend = "default"
    /\ ax_calls = <<>>
    /\ RotationAtRest
    /\ DensityAtRest
    /\ UnitCellAtRest

NextUtilities == PlottingPresets \/ DrawPlot \/ DrawGuideline \/ NextCall

SpecUtilities == InitUtilities /\ [][NextUtilities]_vars

(***************************************************************************)
(* plot_data.py __main__ (126-419): the unit-cell script.  The columns the *)
(* script only drops (Error, E3, Nu13, Nu23, G13, G23) are left out of the *)
(* rows; the column names are written with _ for the blank.                *)
(***************************************************************************)
OV_file_names ==
    <<"Chiral_All_outputs.csv", "Lattice_All_outputs.csv", "Re-entrant_All_outputs.csv">>
DV_file_names ==
    <<"Chiral_All_inputs.csv", "Lattice_All_inputs.csv", "Re-entrant_All_inputs.csv">>

\* the fixed colours of the categories
colors_without_violated ==
    [c \in {"Chiral", "Lattice", "Re-entrant"} |->
        CASE c = "Chiral" -> "r" [] c = "Lattice" -> "b" [] c = "Re-entrant" -> "g"]

colors ==
    [c \in {"Chiral", "Lattice", "Re-entrant", "Violated"} |->
        CASE c = "Chiral" -> "r" [] c = "Lattice" -> "b"
          [] c = "Re-entrant" -> "g" [] c = "Violated" -> "grey"]

\* the threshold of the manufacturing constraint, 0.5
thickness_limit == FLit(1, 2)

\* the ID of the highlighted design
highlighted_ID == 152

\* --- the input: the files of the working directory ----------------------
\* a file is its header (the column names) and its rows
CsvFile(header, rows) == [exists |-> TRUE, header |-> header, rows |-> rows]
NoFile == [exists |-> FALSE, header |-> {}, rows |-> <<>>]

OV_header == {"ID", "Unit_Cell", "E1", "E2", "G12", "Nu12"}
DV_header ==
    {"ID", "Unit_Cell", "Strut_thickness", "Stiff_volume", "Total_volume",
     "Infill_material"}

\* an identifier that is not a number (read_csv keeps it as text, the column
\* is then of dtype object) is written as a negative number; it equals no
\* numeric identifier
TextID(n) == -n
IsText(id) == id < 0

OVRows(cell, ids, e1s) ==
    [ID : ids, Unit_Cell : {cell}, E1 : e1s, E2 : {FInt(2)},
     G12 : {FInt(1)}, Nu12 : {FLit(3, 10)}]

DVRows(cell, ids, thicknesses, infills) ==
    [ID : ids, Unit_Cell : {cell}, Strut_thickness : thicknesses,
     Stiff_volume : {FInt(1)}, Total_volume : {FInt(2)}, Infill_material : infills]

OneRow(header, rows) == {CsvFile(header, <<r>>) : r \in rows}
\* a file with its header line only
EmptyCsv(header) == CsvFile(header, <<>>)
\* an outputs file with its header line only, the ID column under another name
KeylessCsv == EmptyCsv(OV_header \ {"ID"})

\* what each of the six files may hold: one row or none, or no file at all
FileChoices(name) ==
    CASE name = "Chiral_All_outputs.csv" ->
            {EmptyCsv(OV_header), KeylessCsv}
               \cup OneRow(OV_header, OVRows("Chiral", {151}, {FInt(2)}))
      [] name = "Chiral_All_inputs.csv" ->
            {NoFile} \cup OneRow(DV_header, DVRows("Chiral", {151}, {FLit(1, 4), FLit(1, 2)},
                                                   {"foamed elastomer"}))
      [] name = "Lattice_All_outputs.csv" ->
            {NoFile, KeylessCsv}
               \cup OneRow(OV_header, OVRows("Lattice", {151, TextID(151)}, {FInt(2)}))
               \cup OneRow(OV_header, OVRows("Honeycomb", {151}, {FInt(2)}))
      [] name = "Lattice_All_inputs.csv" ->
            OneRow(DV_header, DVRows("Lattice", {151}, {FLit(3, 4)},
                                     {"foamed elastomer", "dense elastomer", "none"}))
               \cup OneRow(DV_header, DVRows("Honeycomb", {151}, {FLit(3, 4)},
                                             {"foamed elastomer"}))
      [] name = "Re-entrant_All_outputs.csv" ->
            {EmptyCsv(OV_header), KeylessCsv}
               \cup OneRow(OV_header, OVRows("Re-entrant", {151, 152},
                                             {FLit(1, 16), FLit(124, 1000), FInt(2)}))
      [] name = "Re-entrant_All_inputs.csv" ->
            {EmptyCsv(DV_header)}
               \cup OneRow(DV_header, DVRows("Re-entrant", {151, 152},
                                             {FLit(1, 4), FLit(1, 2)}, {"foamed elastomer"}))

FileNames == {OV_file_names[i] : i \in 1..3} \cup {DV_file_names[i] : i \in 1..3}
FileSystems ==
    {[n \in FileNames |->
        CASE n = OV_file_names[1] -> o1 [] n = OV_file_names[2] -> o2
          [] n = OV_file_names[3] -> o3 [] n = DV_file_names[1] -> d1
          [] n = DV_file_names[2] -> d2 [] n = DV_file_names[3] -> d3] :
        o1 \in FileChoices(OV_file_names[1]), o2 \in FileChoices(OV_file_names[2]),
        o3 \in FileChoices(OV_file_names[3]), d1 \in FileChoices(DV_file_names[1]),
        d2 \in FileChoices(DV_file_names[2]), d3 \in FileChoices(DV_file_names[3])}
Materials == {"foamed elastomer", "dense elastomer", "none"}

\* --- frame operations ------------------------------------------------------
\* a row of left and a row of right with equal ID and Unit Cell, as one row
JoinRow(l, r) ==
    [c \in DOMAIN l \cup DOMAIN r |-> IF c \in DOMAIN l THEN l[c] ELSE r[c]]

SameKeys(l, r) == l.ID = r.ID /\ l.Unit_Cell = r.Unit_Cell

\* left.merge(right, on=['ID','Unit Cell']): how='inner' by default, one row for
\* each pair of rows with equal keys, in the order of left
RECURSIVE merge(_, _)
merge(left, right) ==
    IF left = <<>> THEN <<>>
    ELSE LET l == Head(left)
             m == SelectSeq(right, LAMBDA r : SameKeys(l, r))
         IN  [i \in 1..Len(m) |-> JoinRow(l, m[i])] \o merge(Tail(left), right)

\* df[mask].reset_index(drop=True): the rows kept, their index 0, 1, 2, ...
reset_index(df) ==
    [i \in 1..Len(df) |->
        [c \in DOMAIN df[i] \cup {"index"} |-> IF c = "index" THEN i - 1 ELSE df[i][c]]]

\* df.drop(cols, axis=1)
drop(df, cols) ==
    [i \in 1..Len(df) |-> [c \in DOMAIN df[i] \ cols |-> df[i][c]]]

\* df[cols]; the index stays with the rows
SelectColumns(df, cols) ==
    [i \in 1..Len(df) |-> [c \in cols \cup {"index"} |-> df[i][c]]]

\* mutation: the limit itself counts as violating
ApplyConstraint_inclusive(df) ==
    [i \in 1..Len(df) |->
        IF FLessEq(df[i].Strut_thickness, thickness_limit)
        THEN [df[i] EXCEPT !.Unit_Cell = "Violated"] ELSE df[i]]

\* df.loc[df['Strut thickness [mm]'] < 0.5, 'Unit Cell'] = 'Violated'
ApplyConstraint(df) ==
    [i \in 1..Len(df) |->
        IF FLess(df[i].Strut_thickness, thickness_limit)
        THEN [df[i] EXCEPT !.Unit_Cell = "Violated"] ELSE df[i]]

\* --- the statements ----------------------------------------------------------
\* the statements of the script in the order they run
StepOrder ==
    <<"presets", "read", "merge", "rotate", "filter", "density", "drop", "constraint",
      "select", "reference", "find_outliers", "delete_outliers", "subplots", "grid",
      "labels", "markers", "save_svg", "BREAK", "done">>
StepIndex(step) == CHOOSE k \in 1..Len(StepOrder) : StepOrder[k] = step

\* mutation: the exception is recorded and the script goes on with the next statement
Abort_recovers(step, exception) ==
    /\ uc_pc' = StepOrder[StepIndex(step) + 1]
    /\ uc_error' = exception
    /\ uc_failed_at' = step

Abort(step, exception) ==
    /\ uc_pc' = "aborted"
    /\ uc_error' = exception
    /\ uc_failed_at' = step

Goto(step) ==
    /\ uc_pc' = step
    /\ UNCHANGED <<uc_error, uc_failed_at>>

ucInputs == <<ipython, files, output_dir, material>>

\* 127: plotting_presets() of plot_data.py (23-47); get_ipython exists only
\* under IPython
Presets ==
    /\ uc_pc = "presets"
    /\ IF ipython
       THEN /\ Goto("read")
            /\ backend' = "qt"
            /\ rcParams' = [rcParams EXCEPT !.font_family = "serif",
                                            !.font_serif = "Times New Roman",
                                            !.text_usetex = TRUE,
                                            !.font_size = 12,
                                            !.svg_fonttype = "none",
                                            !.lines_markersize = 10]
       ELSE /\ Abort("presets", "NameError")
            /\ UNCHANGED <<backend, rcParams>>
    /\ UNCHANGED <<ucInputs, counter, OV_data_frame, DV_data_frame, merged_data,
                   data_to_plot, plotting_data_frame, compliant_material,
                   outlier_data, axes, written>>
    /\ UNCHANGED <<rotVars, denVars, pu_pc, pu_call, pu_error, ax_calls>>

\* 149-178: one turn of the loop over zip(OV_file_names, DV_file_names)
ReadFiles ==
    /\ uc_pc = "read"
    /\ LET ov == files[OV_file_names[counter + 1]]
           dv == files[DV_file_names[counter + 1]]
       IN  IF ~ov.exists
           THEN /\ Abort("read", "FileNotFoundError")
                /\ UNCHANGED <<OV_data_frame, DV_data_frame, counter>>
           ELSE /\ OV_data_frame' = OV_data_frame \o ov.rows
                /\ IF ~dv.exists
                   THEN /\ Abort("read", "FileNotFoundError")
                        /\ UNCHANGED <<DV_data_frame, counter>>
                   ELSE /\ DV_data_frame' = DV_data_frame \o dv.rows
                        /\ counter' = counter + 1
                        /\ Goto(IF counter + 1 = Len(OV_file_names) THEN "merge" ELSE "read")
    /\ UNCHANGED <<ucInputs, merged_data, data_to_plot, plotting_data_frame,
                   compliant_material, outlier_data, axes, written>>
    /\ UNCHANGED <<rotVars, denVars, puVars>>

\* the columns of the frame concatenated from the files named: the union of
\* their headers
ConcatColumns(names) == UNION {files[names[k]].header : k \in 1..Len(names)}

\* what pandas infers for the ID column of a frame
KeyKind(df) ==
    IF df = <<>> THEN "empty"
    ELSE IF \A k \in 1..Len(df) : IsText(df[k].ID) THEN "string"
         ELSE IF \A k \in 1..Len(df) : ~IsText(df[k].ID) THEN "integer"
              ELSE "mixed-integer"

\* merge refuses to join a text key column with a numeric one (neither empty)
KeyDtypesClash(left, right) == {KeyKind(left), KeyKind(right)} = {"string", "integer"}

\* the exception of the merge of line 183, or "none"
MergeError ==
    IF ~({"ID", "Unit_Cell"} \subseteq ConcatColumns(OV_file_names)
                                     \cap ConcatColumns(DV_file_names))
    THEN "KeyError"
    ELSE IF KeyDtypesClash(OV_data_frame, DV_data_frame) THEN "ValueError"
         ELSE "none"

\* 183: merged_data = OV_data_frame.merge(DV_data_frame, on=['ID','Unit Cell'])
Merge ==
    /\ uc_pc = "merge"
    /\ IF MergeError = "none"
       THEN /\ merged_data' = merge(OV_data_frame, DV_data_frame)
            /\ Goto("rotate")
       ELSE /\ Abort("merge", MergeError)
            /\ UNCHANGED merged_data
    /\ UNCHANGED <<ucInputs, counter, OV_data_frame, DV_data_frame, data_to_plot,
                   plotting_data_frame, compliant_material, outlier_data, axes, written>>
    /\ UNCHANGED <<rotVars, denVars, puVars>>

\* 186: merged_data = orthonormal_rotation(merged_data)
RotateMerged ==
    /\ uc_pc = "rotate"
    /\ merged_data' = orthonormal_rotation(merged_data)
    /\ Goto("filter")
    /\ UNCHANGED <<ucInputs, counter, OV_data_frame, DV_data_frame, data_to_plot,
                   plotting_data_frame, compliant_material, outlier_data, axes, written>>
    /\ UNCHANGED <<rotVars, denVars, puVars>>

\* 189-192: the rows of the material in question, re-indexed
FilterMaterial ==
    /\ uc_pc = "filter"
    /\ data_to_plot' =
          reset_index(SelectSeq(merged_data, LAMBDA row : row.Infill_material = material))
    /\ Goto("density")
    /\ UNCHANGED <<ucInputs, counter, OV_data_frame, DV_data_frame, merged_data,
                   plotting_data_frame, compliant_material, outlier_data, axes, written>>
    /\ UNCHANGED <<rotVars, denVars, puVars>>

\* 195-197: the density field
DensityField ==
    /\ uc_pc = "density"
    /\ data_to_plot' = WithDensity(data_to_plot)
    /\ Goto("drop")
    /\ UNCHANGED <<ucInputs, counter, OV_data_frame, DV_data_frame, merged_data,
                   plotting_data_frame, compliant_material, outlier_data, axes, written>>
    /\ UNCHANGED <<rotVars, denVars, puVars>>

\* 200-203: plotting_data_frame = data_to_plot.drop([...], axis=1)
DropColumns ==
    /\ uc_pc = "drop"
    /\ plotting_data_frame' =
          drop(data_to_plot, {"ID", "Stiff_volume", "Total_volume", "Infill_material"})
    /\ Goto("constraint")
    /\ UNCHANGED <<ucInputs, counter, OV_data_frame, DV_data_frame, merged_data,
                   data_to_plot, compliant_material, outlier_data, axes, written>>
    /\ UNCHANGED <<rotVars, denVars, puVars>>

\* 205-207: the manufacturing constraint
Constraint ==
    /\ uc_pc = "constraint"
    /\ plotting_data_frame' = ApplyConstraint(plotting_data_frame)
    /\ Goto("select")
    /\ UNCHANGED <<ucInputs, counter, OV_data_frame, DV_data_frame, merged_data,
                   data_to_plot, compliant_material, outlier_data, axes, written>>
    /\ UNCHANGED <<rotVars, denVars, puVars>>

\* 210-211: only the 2D properties are kept
SelectProperties ==
    /\ uc_pc = "select"
    /\ plotting_data_frame' =
          SelectColumns(plotting_data_frame, {"Unit_Cell", "E1", "E2", "G12", "Nu12"})
    /\ Goto("reference")
    /\ UNCHANGED <<ucInputs, counter, OV_data_frame, DV_data_frame, merged_data,
                   data_to_plot, compliant_material, outlier_data, axes, written>>
    /\ UNCHANGED <<rotVars, denVars, puVars>>

\* 225-231: the reference properties of the material in question
ChooseReference ==
    /\ uc_pc = "reference"
    /\ compliant_material' =
          IF material = "foamed elastomer" THEN compliant_foam
          ELSE IF material = "dense elastomer" THEN compliant_dense
               ELSE IF material = "none" THEN null_material
                    ELSE compliant_material
    /\ Goto("find_outliers")
    /\ UNCHANGED <<ucInputs, counter, OV_data_frame, DV_data_frame, merged_data,
                   data_to_plot, plotting_data_frame, outlier_data, axes, written>>
    /\ UNCHANGED <<rotVars, denVars, puVars>>

\* 233-235: the outliers among the rows of the reference material
FindOutliers ==
    /\ uc_pc = "find_outliers"
    /\ IF compliant_material = <<>>
       THEN /\ Abort("find_outliers", "NameError")
            /\ UNCHANGED outlier_data
       ELSE /\ outlier_data' =
                  SelectSeq(SelectSeq(merged_data,
                                      LAMBDA row : \/ FLess(row.E1, compliant_material.E)
                                                   \/ FLess(row.E2, compliant_material.E)),
                            LAMBDA row : row.Infill_material = compliant_material.name)
            /\ Goto("delete_outliers")
    /\ UNCHANGED <<ucInputs, counter, OV_data_frame, DV_data_frame, merged_data,
                   data_to_plot, plotting_data_frame, compliant_material, axes, written>>
    /\ UNCHANGED <<rotVars, denVars, puVars>>

\* 237-238: the outliers leave the plotting frame
DeleteOutliers ==
    /\ uc_pc = "delete_outliers"
    /\ plotting_data_frame' =
          SelectSeq(plotting_data_frame,
                    LAMBDA row : /\ FGreater(row.E1, compliant_material.E)
                                 /\ FGreater(row.E2, compliant_material.E))
    /\ Goto("subplots")
    /\ UNCHANGED <<ucInputs, counter, OV_data_frame, DV_data_frame, merged_data,
                   data_to_plot, compliant_material, outlier_data, axes, written>>
    /\ UNCHANGED <<rotVars, denVars, puVars>>

\* --- the scatterplot matrix ---------------------------------------------------
\* mutation: the columns as they are without the selection of line 211
frame_columns_unselected ==
    <<"Unit_Cell", "Strut_thickness", "E1", "E2", "G12", "Nu12", "Density">>

\* plotting_data_frame.columns after line 211
frame_columns == <<"Unit_Cell", "E1", "E2", "G12", "Nu12">>
\* columns of line 329
columns == <<"E1", "E2", "G12", "Nu12">>
axes_labels == <<"$E_1$ [MPa]", "$E_2$ [MPa]", "$G_{12}$ [MPa]", "$\\nu_{12}$ [-]">>

GridIndex == 0..3
\* the cells in the order of the two nested loops over enumerate(axes)
GridCells == [k \in 1..16 |-> <<(k - 1) \div 4, (k - 1) % 4>>]

BlankCell ==
    [plot |-> "none", x |-> "", y |-> "", hue |-> {}, log_x |-> FALSE, log_y |-> FALSE,
     visible |-> TRUE, xlabel |-> "", ylabel |-> "",
     xaxis_visible |-> TRUE, yaxis_visible |-> TRUE, marks |-> <<>>]

\* the hue levels of a frame
Levels(df) == {df[k].Unit_Cell : k \in 1..Len(df)}

\* seaborn (kdeplot, scatterplot) rejects a palette dict that lacks a hue level
PaletteCovers(palette, df) == Levels(df) \subseteq DOMAIN palette

\* the label sns.scatterplot gives an axis: the name of the variable, and none
\* at all for a frame without rows (it returns before the axes are labelled)
AxisLabel(df, column) == IF df = <<>> THEN "" ELSE column

\* sns.kdeplot on a frame without rows depends on the seaborn release: 0.11 and
\* 0.12 return before the axes are touched, 0.13 scales and labels the axes
KdeReleases == {"returns early", "attaches"}
KdeSkips(df, release) == df = <<>> /\ release = "returns early"

\* 248-315: the body of the first pair of loops for cell (i, j)
GridCell(cell, i, j, df, release) ==
    IF i = j
    THEN [cell EXCEPT !.plot = "kdeplot",
                      !.x = frame_columns[i + 2],
                      !.hue = Levels(df),
                      !.log_x = IF KdeSkips(df, release) THEN @
                                ELSE (frame_columns[i + 2] # "Nu12"),
                      !.ylabel = "",
                      !.xlabel = IF i < 3 \/ KdeSkips(df, release) THEN ""
                                 ELSE frame_columns[i + 2],
                      !.yaxis_visible = FALSE]
    ELSE IF i < j
         THEN [cell EXCEPT !.plot = "hidden", !.visible = FALSE]
         ELSE [cell EXCEPT !.plot = "scatterplot",
                           !.x = frame_columns[j + 2],
                           !.y = frame_columns[i + 2],
                           !.hue = Levels(df),
                           !.log_x = (frame_columns[j + 2] # "Nu12"),
                           !.log_y = (frame_columns[i + 2] # "Nu12"),
                           !.ylabel = IF j > 0 THEN "" ELSE AxisLabel(df, frame_columns[i + 2]),
                           !.xlabel = IF i < 3 THEN "" ELSE AxisLabel(df, frame_columns[j + 2])]

\* 244, sharex='col': the cells of a grid column share their x axis, so a log
\* scale set on cell (i, j) is the x scale of every cell of column j
ShareXScale(ax, i, j) ==
    IF ax[<<i, j>>].log_x
    THEN [c \in DOMAIN ax |-> IF c[2] = j THEN [ax[c] EXCEPT !.log_x = TRUE] ELSE ax[c]]
    ELSE ax

\* 246-315: the loops, cell after cell, up to the first exception
RECURSIVE DrawGrid(_, _, _, _)
DrawGrid(ax, k, df, release) ==
    IF k > Len(GridCells) THEN [axes |-> ax, error |-> "none"]
    ELSE LET i == GridCells[k][1]
             j == GridCells[k][2]
         IN  IF i >= j /\ ~PaletteCovers(colors, df)
             THEN [axes |-> ax, error |-> "ValueError"]
             ELSE DrawGrid(ShareXScale([ax EXCEPT ![<<i, j>>] =
                                            GridCell(ax[<<i, j>>], i, j, df, release)],
                                       i, j),
                           k + 1, df, release)

\* the rows the highlighted point is read from (347-348)
HighlightRows(df) ==
    SelectSeq(df, LAMBDA row : row.Unit_Cell = "Re-entrant" /\ row.ID = highlighted_ID)

\* 333-343: labels and axis visibility of cell (i, j)
LabelCell(cell, i, j) ==
    [cell EXCEPT !.ylabel = IF j = 0 THEN axes_labels[i + 1] ELSE @,
                 !.xlabel = IF i = 3 THEN axes_labels[j + 1] ELSE @,
                 !.xaxis_visible = IF i < 3 THEN FALSE ELSE @,
                 !.yaxis_visible = IF j > 0 THEN FALSE ELSE @]

\* mutation: .iloc[-1], the last of the selected rows
HighlightMark_last(df, i, j) ==
    [what |-> "highlight",
     x |-> HighlightRows(df)[Len(HighlightRows(df))][columns[j + 1]],
     y |-> HighlightRows(df)[Len(HighlightRows(df))][columns[i + 1]],
     marker |-> "*", c |-> "y"]

\* 345-353: the highlighted point, .iloc[0] of the selected rows
HighlightMark(df, i, j) ==
    [what |-> "highlight", x |-> HighlightRows(df)[1][columns[j + 1]],
     y |-> HighlightRows(df)[1][columns[i + 1]], marker |-> "*", c |-> "y"]

\* 331-353: the second pair of loops, up to the first exception
RECURSIVE LabelGrid(_, _, _)
LabelGrid(ax, k, df) ==
    IF k > Len(GridCells) THEN [axes |-> ax, error |-> "none"]
    ELSE LET i == GridCells[k][1]
             j == GridCells[k][2]
             labelled == [ax EXCEPT ![<<i, j>>] = LabelCell(@, i, j)]
         IN  IF i = j THEN LabelGrid(labelled, k + 1, df)
             ELSE IF HighlightRows(df) = <<>>
                  THEN [axes |-> labelled, error |-> "IndexError"]
                  ELSE LabelGrid([labelled EXCEPT ![<<i, j>>].marks =
                                      Append(@, HighlightMark(df, i, j))],
                                 k + 1, df)

ReferenceMark(x, y, color) ==
    [what |-> "reference", x |-> x, y |-> y, marker |-> "*", c |-> color]

\* 356-375: the constituent materials on six cells of the lower triangle
ReferenceMarks(ax, cm) ==
    [ax EXCEPT
        ![<<1, 0>>].marks = @ \o <<ReferenceMark(stiff.E, stiff.E, "gray"),
                                   ReferenceMark(cm.E, cm.E, "cyan")>>,
        ![<<2, 0>>].marks = @ \o <<ReferenceMark(stiff.E, stiff.G, "gray"),
                                   ReferenceMark(cm.E, cm.G, "cyan")>>,
        ![<<3, 0>>].marks = @ \o <<ReferenceMark(stiff.E, stiff.nu, "gray"),
                                   ReferenceMark(cm.E, cm.nu, "cyan")>>,
        ![<<2, 1>>].marks = @ \o <<ReferenceMark(stiff.E, stiff.G, "gray"),
                                   ReferenceMark(cm.E, cm.G, "cyan")>>,
        ![<<3, 1>>].marks = @ \o <<ReferenceMark(stiff.E, stiff.nu, "gray"),
                                   ReferenceMark(cm.E, cm.nu, "cyan")>>,
        ![<<3, 2>>].marks = @ \o <<ReferenceMark(stiff.G, stiff.nu, "gray"),
                                   ReferenceMark(cm.G, cm.nu, "cyan")>>]

\* 244: fig, axes = plt.subplots(4,4,sharex='col')
Subplots ==
    /\ uc_pc = "subplots"
    /\ axes' = [c \in GridIndex \X GridIndex |-> BlankCell]
    /\ Goto("grid")
    /\ UNCHANGED <<ucInputs, counter, OV_data_frame, DV_data_frame, merged_data,
                   data_to_plot, plotting_data_frame, compliant_material,
                   outlier_data, written>>
    /\ UNCHANGED <<rotVars, denVars, puVars>>

\* 246-315: density estimates on the diagonal, scatter plots below it
PlotGrid ==
    /\ uc_pc = "grid"
    /\ \E release \in KdeReleases :
          LET out == DrawGrid(axes, 1, plotting_data_frame, release)
          IN  /\ axes' = out.axes
              /\ IF out.error = "none" THEN Goto("labels") ELSE Abort("grid", out.error)
    /\ UNCHANGED <<ucInputs, counter, OV_data_frame, DV_data_frame, merged_data,
                   data_to_plot, plotting_data_frame, compliant_material,
                   outlier_data, written>>
    /\ UNCHANGED <<rotVars, denVars, puVars>>

\* 326-353: axis labels, and the highlighted design on the off-diagonal cells
LabelAxes ==
    /\ uc_pc = "labels"
    /\ LET out == LabelGrid(axes, 1, data_to_plot)
       IN  /\ axes' = out.axes
           /\ IF out.error = "none" THEN Goto("markers") ELSE Abort("labels", out.error)
    /\ UNCHANGED <<ucInputs, counter, OV_data_frame, DV_data_frame, merged_data,
                   data_to_plot, plotting_data_frame, compliant_material,
                   outlier_data, written>>
    /\ UNCHANGED <<rotVars, denVars, puVars>>

\* 356-375
PlotReferences ==
    /\ uc_pc = "markers"
    /\ axes' = ReferenceMarks(axes, compliant_material)
    /\ Goto("save_svg")
    /\ UNCHANGED <<ucInputs, counter, OV_data_frame, DV_data_frame, merged_data,
                   data_to_plot, plotting_data_frame, compliant_material,
                   outlier_data, written>>
    /\ UNCHANGED <<rotVars, denVars, puVars>>

\* 382-399: layout, plt.show() and plt.savefig(<material>unit_cell.svg); the
\* file cannot be opened when the directory output_images does not exist
SaveSvg ==
    /\ uc_pc = "save_svg"
    /\ IF output_dir
       THEN /\ written' = Append(written, <<"output_images", material, "unit_cell.svg">>)
            /\ Goto("BREAK")
       ELSE /\ Abort("save_svg", "FileNotFoundError")
            /\ UNCHANGED written
    /\ UNCHANGED <<ucInputs, counter, OV_data_frame, DV_data_frame, merged_data,
                   data_to_plot, plotting_data_frame, compliant_material,
                   outlier_data, axes>>
    /\ UNCHANGED <<rotVars, denVars, puVars>>

\* mutation: BREAK is a bound name
module_names_with_BREAK == {"plt", "os", "material", "BREAK"}

\* the names bound in the module when line 400 is reached
module_names ==
    {"pickle", "os", "pd", "np", "mpl", "plt", "patches", "sns",
     "plotting_presets", "orthonormal_rotation", "create_baseline_materials",
     "stiff", "compliant_dense", "compliant_foam", "null_material", "material",
     "manufacturing_constraints", "OV_file_names", "DV_file_names", "counter",
     "OV_file_name", "DV_file_name", "OV_file", "DV_file", "OV_data_frame",
     "DV_data_frame", "merged_data", "data_to_plot", "plotting_data_frame",
     "colors", "compliant_material", "outlier_data", "fig", "axes", "i", "axs",
     "j", "ax", "log_flag", "x_log_flag", "y_log_flag", "axes_labels", "columns"}

\* 400-419: the statement BREAK evaluates a name; were it bound, the PNG would
\* be saved and the medians printed
Break ==
    /\ uc_pc = "BREAK"
    /\ IF "BREAK" \in module_names
       THEN /\ written' = Append(written, <<"output_images", material, "unit_cell.png">>)
            /\ Goto("done")
       ELSE /\ Abort("BREAK", "NameError")
            /\ UNCHANGED written
    /\ UNCHANGED <<ucInputs, counter, OV_data_frame, DV_data_frame, merged_data,
                   data_to_plot, plotting_data_frame, compliant_material,
                   outlier_data, axes>>
    /\ UNCHANGED <<rotVars, denVars, puVars>>

InitUnitCell ==
    /\ uc_pc = "presets"
    /\ uc_error = "none"
    /\ uc_failed_at = "none"
    /\ ipython \in BOOLEAN
    /\ files \in FileSystems
    /\ output_dir \in BOOLEAN
    /\ material \in Materials
    /\ counter = 0
    /\ OV_data_frame = <<>>
    /\ DV_data_frame = <<>>
    /\ merged_data = <<>>
    /\ data_to_plot = <<>>
    /\ plotting_data_frame = <<>>
    /\ compliant_material = <<>>
    /\ outlier_data = <<>>
    /\ axes = <<>>
    /\ written = <<>>
    /\ RotationAtRest
    /\ DensityAtRest
    /\ pu_pc = "unused" /\ pu_call = <<>> /\ pu_error = "none" /\ ax_calls = <<>>
    /\ rcParams = rcDefaults
    /\ backend = "default"

NextUnitCell ==
    \/ Presets \/ ReadFiles \/ Merge \/ RotateMerged \/ FilterMaterial
    \/ DensityField \/ DropColumns \/ Constraint \/ SelectProperties
    \/ ChooseReference \/ FindOutliers \/ DeleteOutliers
    \/ Subplots \/ PlotGrid \/ LabelAxes \/ PlotReferences \/ SaveSvg \/ Break

SpecUnitCell == InitUnitCell /\ [][NextUnitCell]_vars

(***************************************************************************)
(* Claims.                                                                 *)
(***************************************************************************)
\* C1: the frame orthonormal_rotation returns has exactly twice as many rows
\* as the frame it was given, the empty frame included.
C1_RowCountDoubles ==
    rot_pc = "return" => Len(rot_result) = 2 * Len(data_frame)

C1_Witness ==
    rot_pc = "return" /\ Len(data_frame) = MaxRows /\ Len(rot_result) = 2 * MaxRows

\* C2 as stated: the rotated counterpart of row k, at position n+k, has Nu12
\* equal to the original Nu12 times E1/E2 of the ORIGINAL row (in either order
\* of evaluation), for nonzero E1 and E2.
C2_OriginalRatio ==
    rot_pc = "return" =>
        \A k \in 1..Len(data_frame) :
            LET o == data_frame[k]
                r == rot_result[Len(data_frame) + k]
            IN  (~IsZero(o.E1) /\ ~IsZero(o.E2)) =>
                    \/ r.Nu12 = FDiv(FMul(o.Nu12, o.E1), o.E2)
                    \/ r.Nu12 = FMul(o.Nu12, FDiv(o.E1, o.E2))

\* C2 amended: the rotated counterpart of row k, at position n+k, has Nu12
\* equal to (original Nu12 * original E2) / original E1: the factor is E1/E2 of
\* the rotated row, which is E2/E1 of the original row.
C2_RotatedRatio ==
    rot_pc = "return" =>
        \A k \in 1..Len(data_frame) :
            LET o == data_frame[k]
                r == rot_result[Len(data_frame) + k]
            IN  (~IsZero(o.E1) /\ ~IsZero(o.E2)) =>
                    r.Nu12 = FDiv(FMul(o.Nu12, o.E2), o.E1)

C2_Witness ==
    /\ rot_pc = "return"
    /\ \E k \in 1..Len(data_frame) :
          /\ ~IsZero(data_frame[k].E1) /\ ~IsZero(data_frame[k].E2)
          /\ data_frame[k].E1 # data_frame[k].E2
          /\ rot_result[Len(data_frame) + k].Nu12 # data_frame[k].Nu12

\* the smaller and the larger of the two densities the formula uses
RhoMin == IF FLess(stiff.rho, compliant_dense.rho) THEN stiff.rho ELSE compliant_dense.rho
RhoMax == IF FLess(stiff.rho, compliant_dense.rho) THEN compliant_dense.rho ELSE stiff.rho

\* x * 2^Prec compared with y * num, for finite positive x and y
ScaledLessEq(x, xnum, y, ynum) ==
    LET lo == IF x.e < y.e THEN x.e ELSE y.e
    IN  x.s * x.m * 2^(x.e - lo) * xnum <= y.s * y.m * 2^(y.e - lo) * ynum

VolumesInRange(row) ==
    /\ FGreater(row.Total_volume, FInt(0))
    /\ FLessEq(FInt(0), row.Stiff_volume)
    /\ FLessEq(row.Stiff_volume, row.Total_volume)

\* C3 as stated: for Total volume > 0 and 0 <= Stiff volume <= Total volume the
\* Density lies between the two densities of the formula, bounds included; for
\* Total volume = 0 a non-finite value is stored (the statement never raises).
C3_ExactBounds ==
    den_pc = "after" =>
        \A i \in 1..Len(den_frame) :
            LET row == den_frame[i]
            IN  /\ VolumesInRange(row) =>
                      FLessEq(RhoMin, row.Density) /\ FLessEq(row.Density, RhoMax)
                /\ IsZero(row.Total_volume) => ~IsFinite(row.Density)

\* C3 amended: the Density lies between the two densities of the formula up to
\* the rounding of the five floating-point operations, a relative error below
\* 5 * 2^-Prec: RhoMin * (1 - 5*2^-Prec) <= Density <= RhoMax * (1 + 5*2^-Prec);
\* for Total volume = 0 a non-finite value is stored.
C3_BoundsUpToRounding ==
    den_pc = "after" =>
        \A i \in 1..Len(den_frame) :
            LET row == den_frame[i]
            IN  /\ VolumesInRange(row) =>
                      /\ IsFinite(row.Density)
                      /\ ScaledLessEq(RhoMin, 2^Prec - 5, row.Density, 2^Prec)
                      /\ ScaledLessEq(row.Density, 2^Prec, RhoMax, 2^Prec + 5)
                /\ IsZero(row.Total_volume) => ~IsFinite(row.Density)

C3_Witness ==
    /\ den_pc = "after"
    /\ \E i \in 1..Len(den_frame) :
          /\ VolumesInRange(den_frame[i])
          /\ FLess(FInt(0), den_frame[i].Stiff_volume)
          /\ FLess(den_frame[i].Stiff_volume, den_frame[i].Total_volume)
    /\ \E i \in 1..Len(den_frame) :
          IsZero(den_frame[i].Total_volume) /\ ~IsFinite(den_frame[i].Density)

PuCalled(fn) == pu_pc \in {"returned", "raised"} /\ pu_call.fn = fn

\* C5: draw_guideline with log_flag=True, power=1, y_intercept=1, x_lim=[1,10]
\* plots a polyline whose y value equals its x value at each of the 5 samples.
C5_IdentityLine ==
    (/\ PuCalled("draw_guideline")
     /\ pu_call.log_flag
     /\ pu_call.guideline.power = 1
     /\ pu_call.guideline.y_intercept = FInt(1)
     /\ pu_call.guideline.x_lim = <<FInt(1), FInt(10)>>) =>
        /\ ax_calls[1].fn = "plot"
        /\ Len(ax_calls[1].x) = 5
        /\ Len(ax_calls[1].y) = 5
        /\ \A i \in 1..5 : ax_calls[1].y[i] = ax_calls[1].x[i]

C5_Witness ==
    /\ PuCalled("draw_guideline")
    /\ pu_call.log_flag
    /\ pu_call.guideline.power = 1
    /\ pu_call.guideline.y_intercept = FInt(1)
    /\ pu_call.guideline.x_lim = <<FInt(1), FInt(10)>>
    /\ ax_calls[1].x[2] = FLit(13, 4)
    /\ ax_calls[1].y[5] = FInt(10)

ValidFigureType(figure_type) ==
    lower(figure_type) \in {Str_publication, Str_presentation}

\* C6: plotting_presets ends in ValueError for every figure_type whose
\* lower-cased value is neither 'publication' nor 'presentation', and returns
\* normally for every figure_type that is one of the two in any letter case
\* (in an environment in which the Spyder branch of 43-49 does not fail).
C6_ValueErrorOnInvalid ==
    (/\ PuCalled("plotting_presets")
     /\ SpyderBranch(pu_call.spyder, pu_call.shell) = "none") =>
        IF ValidFigureType(pu_call.figure_type)
        THEN pu_pc = "returned" /\ pu_error = "none"
        ELSE pu_pc = "raised" /\ pu_error = "ValueError"

\* the positions in ax_calls of the calls of fn made for category c
CallsFor(fn, c) ==
    {i \in 1..Len(ax_calls) : ax_calls[i].fn = fn /\ ax_calls[i].category = c}

\* C7: draw_plot with data_type='ranges' calls draw_ellipses exactly once for
\* each row of each category group (with that row's low and high values) and
\* draw_hull exactly once per group, after all of the group's ellipse calls and
\* with 2*len(group) corner points.  A call that ends in an exception (a
\* category without a colour) has made no more than these calls, in this order.
C7_EllipsePerRowHullPerGroup ==
    (PuCalled("draw_plot") /\ pu_call.data_type = "ranges") =>
        \A c \in {pu_call.data[i].Category : i \in 1..Len(pu_call.data)} :
            LET md == GroupRows(pu_call.data, c)
                E == CallsFor("draw_ellipses", c)
                H == CallsFor("draw_hull", c)
            IN  /\ Cardinality(E) <= Len(md)
                /\ Cardinality(H) <= 1
                /\ pu_pc = "returned" => Cardinality(E) = Len(md) /\ Cardinality(H) = 1
                /\ \A h \in H :
                      /\ Cardinality(E) = Len(md)
                      /\ \A i \in E : i < h
                      /\ Len(ax_calls[h].X) = 2 * Len(md)
                /\ \A i \in E :
                      LET k == Cardinality({j \in E : j <= i})
                      IN  /\ ax_calls[i].x = <<md[k].x_low, md[k].x_high>>
                          /\ ax_calls[i].y = <<md[k].y_low, md[k].y_high>>

C7_Witness ==
    /\ PuCalled("draw_plot")
    /\ pu_call.data_type = "ranges"
    /\ pu_pc = "returned"
    /\ Cardinality(CallsFor("draw_ellipses", "Foams")) = 1
    /\ Cardinality(CallsFor("draw_ellipses", "Metals")) = 1
    /\ Cardinality(CallsFor("draw_hull", "Foams")) = 1
    /\ Cardinality(CallsFor("draw_hull", "Metals")) = 1

\* C8: for every frame, the empty one included, a data_type outside
\* {'ranges','values'} makes draw_plot fail, and no plotting call has been made.
C8_InvalidDataTypeFails ==
    (PuCalled("draw_plot") /\ pu_call.data_type \notin {"ranges", "values"}) =>
        pu_pc = "raised" /\ pu_error # "none" /\ ax_calls = <<>>

\* the statement the script is at, or the one it stopped in
CurrentStep == IF uc_pc = "aborted" THEN uc_failed_at ELSE uc_pc
\* the step has been executed and has not raised
Passed(step) == StepIndex(CurrentStep) > StepIndex(step)

\* C4: once the manufacturing-constraint step has run, every row of the
\* plotting frame whose strut thickness is strictly below 0.5 is labelled
\* 'Violated' and every row whose thickness is >= 0.5 has the category it had
\* before the step; right after the step that is every row of the frame, and
\* the later steps (column selection, outlier removal, plotting) leave the
\* category of the rows that remain as the constraint step set it.
C4_ConstraintRelabels ==
    Passed("constraint") =>
        /\ (uc_pc = "select" => Len(plotting_data_frame) = Len(data_to_plot))
        /\ \A k \in 1..Len(plotting_data_frame) :
              LET row == plotting_data_frame[k]
                  before == data_to_plot[row.index + 1]
              IN  /\ FLess(before.Strut_thickness, thickness_limit)
                        => row.Unit_Cell = "Violated"
                  /\ FLessEq(thickness_limit, before.Strut_thickness)
                        => row.Unit_Cell = before.Unit_Cell

C4_Witness ==
    /\ Passed("save_svg")
    /\ \E k \in 1..Len(plotting_data_frame) :
          /\ plotting_data_frame[k].Unit_Cell = "Violated"
          /\ data_to_plot[plotting_data_frame[k].index + 1].Unit_Cell = "Chiral"
    /\ \E k \in 1..Len(plotting_data_frame) :
          /\ plotting_data_frame[k].Unit_Cell = "Re-entrant"
          /\ data_to_plot[plotting_data_frame[k].index + 1].Strut_thickness = thickness_limit

\* the (ID, Unit Cell) pairs of a frame
KeysOf(df) == {<<df[k].ID, df[k].Unit_Cell>> : k \in 1..Len(df)}
\* a pair present in one frame and absent from the other
Mismatched == KeysOf(OV_data_frame) # KeysOf(DV_data_frame)

\* C9: when the two concatenated frames have mismatched (ID, Unit Cell) pairs
\* (a pair present in one frame and absent from the other), the merge step
\* fails and the script aborts there; it never goes on with a merged frame.
C9_MismatchAborts ==
    (Mismatched /\ StepIndex(CurrentStep) >= StepIndex("merge") /\ uc_pc # "merge") =>
        uc_pc = "aborted" /\ uc_failed_at = "merge"

\* the categories the files of the repository carry
KnownCategories == {"Chiral", "Lattice", "Re-entrant"}
OnlyKnownCategories ==
    \A n \in FileNames : \A k \in 1..Len(files[n].rows) :
        files[n].rows[k].Unit_Cell \in KnownCategories

\* C10: when the input files carry only the categories Chiral, Lattice and
\* Re-entrant, every Unit Cell label of the plotting frame, from the constraint
\* step on, is a key of colors ('Violated' included), and so is every hue level
\* handed to a plotting call.
C10_LabelsHaveColors ==
    (OnlyKnownCategories /\ Passed("constraint")) =>
        /\ Levels(plotting_data_frame) \subseteq DOMAIN colors
        /\ Passed("subplots") =>
              /\ \A c \in DOMAIN axes : axes[c].hue \subseteq DOMAIN colors
              /\ ~(uc_pc = "aborted" /\ uc_failed_at = "grid")

C10_Witness ==
    /\ OnlyKnownCategories
    /\ Passed("grid")
    /\ Levels(plotting_data_frame) = {"Violated", "Lattice", "Re-entrant"}
    /\ axes[<<1, 0>>].hue = {"Violated", "Lattice", "Re-entrant"}

\* C11: every failure of the unit-cell script is fatal: a statement that raises
\* (reading, merging, transforming, plotting, saving) ends the run at that
\* statement, nothing runs after it, and a run that failed at or before the
\* SVG save has written no file; the SVG exists only in runs in which every
\* statement up to and including the save completed.
C11_FailuresAreFatal ==
    /\ [](/\ uc_failed_at # "none" => uc_pc = "aborted" /\ uc_error # "none"
          /\ (uc_pc = "aborted" /\ StepIndex(uc_failed_at) <= StepIndex("save_svg"))
                => written = <<>>
          /\ written # <<>> =>
                /\ Passed("save_svg")
                /\ written[1] = <<"output_images", material, "unit_cell.svg">>)
    /\ [][uc_pc # "aborted"]_vars

\* a run that got as far as the plotting calls and failed there on a category
C11_Witness ==
    /\ uc_pc = "aborted"
    /\ uc_failed_at = "grid"
    /\ uc_error = "ValueError"
    /\ "Honeycomb" \in Levels(plotting_data_frame)
    /\ output_dir
    /\ written = <<>>

\* C12: for an input frame of n rows, orthonormal_rotation returns a frame whose
\* first n rows are the input rows unchanged and whose row n+k has the E1 of
\* input row k as E2, its E2 as E1, and its value in every column other than
\* E1, E2 and Nu12; the frame the caller passed in is the same after the call.
C12_RotationFrameEffect ==
    [][(rot_pc = "call" /\ rot_pc' = "return") =>
          LET n == Len(data_frame)
          IN  /\ data_frame' = data_frame
              /\ Len(rot_result') = 2 * n
              /\ \A k \in 1..n :
                    /\ rot_result'[k] = data_frame[k]
                    /\ rot_result'[n + k].E1 = data_frame[k].E2
                    /\ rot_result'[n + k].E2 = data_frame[k].E1
                    /\ DOMAIN rot_result'[n + k] = DOMAIN data_frame[k]
                    /\ \A c \in DOMAIN data_frame[k] \ {"E1", "E2", "Nu12"} :
                          rot_result'[n + k][c] = data_frame[k][c]]_vars

C12_Witness ==
    /\ rot_pc = "return"
    /\ Len(data_frame) = MaxRows
    /\ data_frame[1].E1 # data_frame[1].E2
    /\ data_frame[1].ID # data_frame[2].ID
    /\ rot_result[MaxRows + 1].E1 = data_frame[1].E2
    /\ rot_result[MaxRows + 1].E2 = data_frame[1].E1
    /\ rot_result[MaxRows + 2].ID = data_frame[2].ID

\* the columns of the scatterplot matrix, by grid position
GridColumn(i) == <<"E1", "E2", "G12", "Nu12">>[i + 1]

\* C13: once the first pass over the 4x4 grid has run, every cell (i,j) has been
\* handled in exactly one of three ways: i = j holds a per-category density
\* estimate of column i, i < j is hidden, i > j holds a per-category scatter of
\* column i over column j; and an axis of a column is log-scaled exactly when
\* the column is not 'Nu12' (x by column i on the diagonal, x by column j and y
\* by column i below it); the hidden cells, which share the x axis of their
\* grid column, follow the same rule.
C13_GridCells ==
    Passed("grid") =>
        /\ DOMAIN axes = (0..3) \X (0..3)
        /\ \A i, j \in 0..3 :
              LET cell == axes[<<i, j>>]
              IN  /\ cell.plot \in {"kdeplot", "hidden", "scatterplot"}
                  /\ cell.plot = "kdeplot" <=> i = j
                  /\ cell.plot = "hidden" <=> i < j
                  /\ cell.plot = "scatterplot" <=> i > j
                  /\ cell.visible <=> i >= j
                  /\ cell.log_x <=> GridColumn(j) # "Nu12"
                  /\ i = j => /\ cell.x = GridColumn(i)
                              /\ cell.log_x <=> GridColumn(i) # "Nu12"
                              /\ cell.hue = Levels(plotting_data_frame)
                  /\ i > j => /\ cell.x = GridColumn(j)
                              /\ cell.y = GridColumn(i)
                              /\ cell.log_x <=> GridColumn(j) # "Nu12"
                              /\ cell.log_y <=> GridColumn(i) # "Nu12"
                              /\ cell.hue = Levels(plotting_data_frame)

C13_Witness ==
    /\ Passed("grid")
    /\ Cardinality(Levels(plotting_data_frame)) = 3
    /\ axes[<<3, 3>>].plot = "kdeplot" /\ ~axes[<<3, 3>>].log_x
    /\ axes[<<0, 0>>].plot = "kdeplot" /\ axes[<<0, 0>>].log_x
    /\ axes[<<3, 0>>].plot = "scatterplot" /\ axes[<<3, 0>>].log_x /\ ~axes[<<3, 0>>].log_y
    /\ axes[<<2, 1>>].log_x /\ axes[<<2, 1>>].log_y
    /\ ~axes[<<0, 3>>].visible /\ ~axes[<<0, 3>>].log_x
    /\ ~axes[<<0, 1>>].visible /\ axes[<<0, 1>>].log_x

\* C14: draw_guideline plots exactly 5 samples: the first x is x_lim[0], the
\* last is x_lim[1] and the ones between are x_lim[0] + k*(x_lim[1]-x_lim[0])/4
\* (in floating point); each y is y_intercept * x**power when log_flag is true
\* and power * x + y_intercept when it is false; and the annotation is given
\* the samples at index 3 and index 0 as the two points of its slope.
C14_FiveSamples ==
    (PuCalled("draw_guideline") /\ pu_pc = "returned") =>
        LET g == pu_call.guideline
            lo == g.x_lim[1]
            hi == g.x_lim[2]
            spacing == FDiv(FSub(hi, lo), FInt(4))
            line == ax_calls[1]
            note == ax_calls[2]
        IN  /\ Len(ax_calls) = 2
            /\ line.fn = "plot" /\ note.fn = "RotationAwareAnnotation"
            /\ Len(line.x) = 5 /\ Len(line.y) = 5
            /\ line.x[1] = lo
            /\ line.x[5] = hi
            /\ \A k \in 1..3 : line.x[k + 1] = FAdd(FMul(FInt(k), spacing), lo)
            /\ \A i \in 1..5 :
                  line.y[i] = IF pu_call.log_flag
                              THEN FMul(g.y_intercept, FPow(line.x[i], g.power))
                              ELSE FAdd(FMul(FInt(g.power), line.x[i]), g.y_intercept)
            /\ note.p = <<line.x[4], line.y[4]>>
            /\ note.pa = <<line.x[1], line.y[1]>>

C14_Witness ==
    /\ PuCalled("draw_guideline") /\ pu_pc = "returned"
    /\ pu_call.log_flag
    /\ pu_call.guideline.power = MaxPower
    /\ pu_call.guideline.x_lim = <<FInt(0), FInt(4)>>
    /\ pu_call.guideline.y_intercept = FInt(3)
    /\ ax_calls[1].x = <<FInt(0), FInt(1), FInt(2), FInt(3), FInt(4)>>
    /\ ax_calls[2].p = <<FInt(3), FInt(3 * 3 ^ MaxPower)>>
    /\ ax_calls[2].pa = <<FInt(0), FInt(0)>>

\* the positions, in the rotated merged frame, of the rows of the material in
\* question with Unit Cell 'Re-entrant' and ID 152
HighlightCandidates ==
    {k \in 1..Len(merged_data) :
        /\ merged_data[k].Unit_Cell = "Re-entrant"
        /\ merged_data[k].ID = 152
        /\ merged_data[k].Infill_material = material}
FirstCandidate == CHOOSE k \in HighlightCandidates : \A m \in HighlightCandidates : k <= m
HighlightsOn(cell) == {m \in 1..Len(cell.marks) : cell.marks[m].what = "highlight"}

\* C15: once the labelling pass has run, every cell with i # j carries exactly
\* one highlight marker and the diagonal cells none; its coordinates are the
\* values of column j and column i of the first Re-entrant row with ID 152 of
\* the material-filtered data, and that row is an un-rotated one (it lies in
\* the first half of the rotated frame).  When there is no such row the run
\* aborts in the labelling pass and no file has been written.
C15_HighlightMarkers ==
    /\ Passed("labels") =>
          /\ HighlightCandidates # {}
          /\ 2 * FirstCandidate <= Len(merged_data)
          /\ \A i, j \in 0..3 :
                LET cell == axes[<<i, j>>]
                    H == HighlightsOn(cell)
                IN  /\ Cardinality(H) = IF i # j THEN 1 ELSE 0
                    /\ \A m \in H :
                          /\ cell.marks[m].x = merged_data[FirstCandidate][GridColumn(j)]
                          /\ cell.marks[m].y = merged_data[FirstCandidate][GridColumn(i)]
    /\ (HighlightCandidates = {} /\ StepIndex(CurrentStep) >= StepIndex("labels")) =>
          /\ uc_pc \in {"labels", "aborted"}
          /\ uc_pc = "aborted" => uc_failed_at = "labels" /\ uc_error = "IndexError"
          /\ written = <<>>

C15_Witness ==
    /\ Passed("labels")
    /\ Len(merged_data) >= 4
    /\ merged_data[FirstCandidate].E1 = FLit(1, 16)
    /\ axes[<<1, 0>>].marks[1].what = "highlight"
    /\ axes[<<1, 0>>].marks[1].x = FLit(1, 16)
    /\ axes[<<1, 0>>].marks[1].y = FInt(2)
    /\ axes[<<0, 1>>].marks[1].x = FInt(2)
    /\ axes[<<0, 1>>].marks[1].y = FLit(1, 16)
    /\ axes[<<1, 1>>].marks = <<>>

\* the number of statements a run can still execute, at most
StepsLeft ==
    IF uc_pc = "aborted" THEN 0
    ELSE (Len(OV_file_names) + 1) * (Len(StepOrder) + 1 - StepIndex(uc_pc)) - counter

\* C16: no run writes the PNG file or gets to the medians ("done"): at most one
\* file is written, the SVG; once it is written the script is at the statement
\* BREAK or has aborted there with a NameError.  Every run ends in an error
\* state, never in normal termination: a run that has not aborted is at one of
\* the statements "presets" .. "BREAK" (each of which either completes or
\* raises), and each statement executed lowers the bound StepsLeft.
C16_NeverPastBreak ==
    /\ [](/\ uc_pc # "done"
          /\ Len(written) <= 1
          /\ \A k \in 1..Len(written) : written[k][3] = "unit_cell.svg"
          /\ written # <<>> =>
                \/ uc_pc = "BREAK"
                \/ uc_pc = "aborted" /\ uc_failed_at = "BREAK" /\ uc_error = "NameError"
          /\ uc_pc # "aborted" =>
                \E k \in 1..StepIndex("BREAK") : uc_pc = StepOrder[k]
          /\ StepsLeft >= 0)
    /\ [][StepsLeft' < StepsLeft]_vars

C16_Witness ==
    /\ uc_pc = "aborted"
    /\ uc_failed_at = "BREAK"
    /\ uc_error = "NameError"
    /\ written = <<<<"output_images", material, "unit_cell.svg">>>>

\* a row of data_to_plot as it stands in merged_data
AsMerged(row) == [c \in DOMAIN row \ {"index", "Density"} |-> row[c]]
IsOutlier(row) == \E k \in 1..Len(outlier_data) : outlier_data[k] = AsMerged(row)
IsKept(row) == \E k \in 1..Len(plotting_data_frame) : plotting_data_frame[k].index = row.index

\* C17: once the outliers have been deleted, every row of the selected infill
\* material is either in outlier_data or kept in the plotting frame, never both
\* and never neither, whatever its E1 and E2 (values equal to the modulus of the
\* compliant material included).
C17_OutlierPartition ==
    Passed("delete_outliers") =>
        \A i \in 1..Len(data_to_plot) :
            IsOutlier(data_to_plot[i]) # IsKept(data_to_plot[i])

\* the constituent the material in question names (225-231)
SelectedMaterial ==
    CASE material = "foamed elastomer" -> compliant_foam
      [] material = "dense elastomer" -> compliant_dense
      [] material = "none" -> null_material

\* C18: the Density of every row is the volume-weighted average of the density
\* of the stiff constituent and the density of the infill material selected for
\* the run, for each of 'foamed elastomer', 'dense elastomer' and 'none'.
C18_DensityOfSelectedMaterial ==
    (Passed("density") /\ material \in {"foamed elastomer", "dense elastomer", "none"}) =>
        \A i \in 1..Len(data_to_plot) :
            LET row == data_to_plot[i]
            IN  row.Density =
                   FDiv(FAdd(FMul(row.Stiff_volume, stiff.rho),
                             FMul(FSub(row.Total_volume, row.Stiff_volume),
                                  SelectedMaterial.rho)),
                        row.Total_volume)

====
